---- MODULE Spec2Model ----
(***************************************************************************)
(* Model of src/main.cpp: the anti-aircraft game.  One process per thread  *)
(* of the program (main, enemySpawnerFn, reloadThreadFn,                   *)
(* playerControllerFn, one enemyThreadFn per enemy, one rocketThreadFn per *)
(* rocket).  Every critical section (pthread_mutex_lock .. unlock with no  *)
(* blocking call inside) is one atomic action guarded by the mutex being   *)
(* free; every read or write of a std::atomic outside a critical section   *)
(* is an action of its own.  The only critical sections that block inside  *)
(* are the two in waitForAllThreadsAndCleanup, which hold a list mutex     *)
(* across pthread_join; these are modelled with an explicit mutex owner.   *)
(* drawScreen changes no program state and is left out of these actions.   *)
(* The lock discipline of the program, drawScreen included, is modelled in *)
(* the second part: every code path of every thread as the sequence of its *)
(* pthread_mutex_lock and pthread_mutex_unlock calls, run one call at a     *)
(* time against the owners of the four mutexes.                            *)
(***************************************************************************)
EXTENDS Integers, Sequences, FiniteSets

VARIABLES
    m_enemies,        \* settings.m_enemies
    k_launchers,      \* k_launchers_global (= settings.k_launchers)
    enemies,          \* std::vector<Enemy>: seq of [x, y, alive]; index = id
    rockets,          \* std::vector<Rocket>: seq of [x, y, aim, active]; index = id
    launchers,        \* std::vector<bool>, indexed 0..k-1; TRUE = loaded
    currentAim,
    destroyedEnemies, groundHits, spawnedEnemies,
    gameRunning, spawnDone,
    enemyListMutex, rocketListMutex,   \* "free" or the owner thread
    batteryMutex, screenMutex,         \* "free" or the owner thread
    lockPath,                          \* per thread: the lock and unlock calls left
                                       \* on the code path it is running
    mainPc, destroyed, ground,         \* main: position and its two locals (0 while
                                       \* out of scope, between iterations)
    declared,                          \* the outcomes main has printed
    spawnerPc, spawnI,                 \* enemySpawnerFn: position, loop index i
    reloadPc, reloadI,                 \* reloadThreadFn: position, loop index i
    playerPc,                          \* playerControllerFn: position
    enemyPc,                           \* enemyThreadFn of each enemy id
    rocketPc,                          \* rocketThreadFn of each rocket id
    consumedCount,                     \* history: Loaded -> Empty transitions so far
    fireBudget,                        \* input source: successful fire events it makes at most
    aimKeys                            \* input source: the aim keys it presses

vars == <<m_enemies, k_launchers, enemies, rockets, launchers, currentAim,
          destroyedEnemies, groundHits, spawnedEnemies, gameRunning, spawnDone,
          enemyListMutex, rocketListMutex, mainPc, destroyed, ground, declared,
          spawnerPc, spawnI, reloadPc, reloadI, playerPc, enemyPc, rocketPc,
          consumedCount, fireBudget, aimKeys, batteryMutex, screenMutex, lockPath>>

\* ---------------------------------------------------------------- bounds
\* Field size (the program clamps it to at least 20 x 60; the model shrinks it).
\* With 5 x 6 an enemy spawns at (2,1) and descends to the ground row 3; a
\* rocket starts at (3,2); aimed left it passes (2,2), aimed up it meets nothing.
SCREEN_H == 5
SCREEN_W == 6
\* Largest m (enemies) and k (launchers) a difficulty preset may give.
MaxM == 2
MaxK == 2
\* Successful fire events the input source produces at most.
MaxRockets == 2

Aims == {"AIM_UP", "AIM_UPLEFT", "AIM_UPRIGHT", "AIM_LEFT", "AIM_RIGHT"}

\* The threads whose lock discipline is followed: main, the three service
\* threads, one enemy thread and one rocket thread.
Threads == {"main", "spawner", "reload", "player", "enemy", "rocket"}

EnemyIds == 1..MaxM
RocketIds == 1..MaxRockets

\* ------------------------------------------------------- pure functions
\* aimToStep: dx of a heading.
AimDx(a) ==
    CASE a = "AIM_UP" -> 0
      [] a = "AIM_UPLEFT" -> -1
      [] a = "AIM_UPRIGHT" -> 1
      [] a = "AIM_LEFT" -> -1
      [] a = "AIM_RIGHT" -> 1

\* aimToStep: dy of a heading (negative = up).
AimDy(a) ==
    CASE a = "AIM_UP" -> -1
      [] a = "AIM_UPLEFT" -> -1
      [] a = "AIM_UPRIGHT" -> -1
      [] a = "AIM_LEFT" -> 0
      [] a = "AIM_RIGHT" -> 0

\* rocketThreadFn's "offscreen?" test.
OffScreen(x, y) == x < 1 \/ x >= SCREEN_W - 1 \/ y < 1 \/ y >= SCREEN_H - 2

\* The test of rocketThreadFn's collision loop on one enemy record.
HitTestNoAlive(e, x, y) == e.x = x /\ e.y = y
HitTest(e, x, y) == e.alive /\ e.x = x /\ e.y = y

\* rocketThreadFn's collision loop: the first enemy, in vector order from i,
\* that passes the test; 0 when the loop ends without a hit.
RECURSIVE HitIndex(_, _, _, _)
HitIndex(es, i, x, y) ==
    IF i > Len(es) THEN 0
    ELSE IF HitTest(es[i], x, y) THEN i
    ELSE HitIndex(es, i + 1, x, y)

\* The test of enemyThreadFn's ground loop on its own record.
GroundTestNoAlive(e) == TRUE
GroundTest(e) == e.alive

\* playerControllerFn's scan for a launcher that contains a rocket, from i up:
\* the first loaded index, -1 when there is none.
RECURSIVE ScanUp(_, _)
ScanUp(l, i) ==
    IF i >= k_launchers THEN -1
    ELSE IF l[i] THEN i
    ELSE ScanUp(l, i + 1)

RECURSIVE ScanDown(_, _)
ScanDown(l, i) ==
    IF i < 0 THEN -1
    ELSE IF l[i] THEN i
    ELSE ScanDown(l, i - 1)

ChosenHighest(l) == ScanDown(l, k_launchers - 1)
ChosenFirst(l) == 0
ChosenLauncher(l) == ScanUp(l, 0)

\* playerControllerFn's `fired` flag after the scan.
FiredAlways(chosen) == TRUE
Fired(chosen) == chosen # -1

\* reloadThreadFn's allFull loop.
AllFull(l) == \A i \in 0..(k_launchers - 1) : l[i]

\* reloadThreadFn's for loop from index i while it holds batteryMutex: the
\* index of the next empty launcher (where it unlocks and sleeps), or
\* k_launchers when the loop ends, either by i reaching k or by gameRunning
\* being false at the loop test.
RECURSIVE NextEmpty(_, _, _)
NextEmpty(l, i, running) ==
    IF i >= k_launchers \/ ~running THEN k_launchers
    ELSE IF ~l[i] THEN i
    ELSE NextEmpty(l, i + 1, running)

\* pthread_cond_signal / pthread_cond_broadcast on batteryNotFull: the reload
\* thread is its only waiter; a woken waiter re-takes batteryMutex, unlocks it
\* and continues at the loop test.
SignalLost(pc) == pc
Signalled(pc) == IF pc = "wait" THEN "loop" ELSE pc

\* main's win test on its local copy, and the outcome of the final evaluation.
WinTest(d) == d >= (m_enemies + 1) \div 2
LoseTest(g) == g > m_enemies \div 2
FinalOutcomeOnlyWin(d) == IF WinTest(d) THEN {"Win"} ELSE {}
FinalOutcome(d) == IF WinTest(d) THEN {"Win"} ELSE {"Lose"}

\* enemySpawnerFn's for-loop test: i < settings.m_enemies && gameRunning.
SpawnTest(i, running) == i < m_enemies /\ running

\* ------------------------------------------------------------------ Init
Start(m, k, b, keys) ==
    /\ m_enemies = m
    /\ k_launchers = k
    /\ enemies = <<>>
    /\ rockets = <<>>
    /\ launchers = [i \in 0..(k_launchers - 1) |-> TRUE]
    /\ currentAim = "AIM_UP"
    /\ destroyedEnemies = 0 /\ groundHits = 0 /\ spawnedEnemies = 0
    /\ gameRunning = TRUE /\ spawnDone = FALSE
    /\ enemyListMutex = "free" /\ rocketListMutex = "free"
    /\ batteryMutex = "free" /\ screenMutex = "free"
    /\ lockPath = [t \in Threads |-> <<>>]
    /\ mainPc = "loop" /\ destroyed = 0 /\ ground = 0
    /\ declared = {}
    /\ spawnerPc = "loop" /\ spawnI = 0
    /\ reloadPc = "loop" /\ reloadI = 0
    /\ playerPc = "loop"
    /\ enemyPc = [e \in EnemyIds |-> "none"]
    /\ rocketPc = [r \in RocketIds |-> "none"]
    /\ consumedCount = 0
    /\ fireBudget = b
    /\ aimKeys = keys

\* The state after main has started its three threads, for a preset with m
\* enemies and one launcher and an input source that fires at most once and
\* presses the left aim key (currentAim starts as AIM_UP).
Init == \E m \in 1..MaxM : Start(m, 1, 1, {"AIM_LEFT"})

\* One enemy, one launcher, up to MaxRockets fires: several rockets in flight.
RaceInit == \E b \in 0..MaxRockets : Start(1, 1, b, {"AIM_LEFT"})

\* One enemy, k launchers, as many fires as launchers.
BatteryInit == \E k \in 1..MaxK : Start(1, k, k, {"AIM_LEFT"})

\* One enemy, one launcher, at most one fire.
SmallInit == \E b \in 0..1 : Start(1, 1, b, {"AIM_LEFT"})

\* ---------------------------------------------------- rocketThreadFn
uRocket == <<batteryMutex, screenMutex, lockPath, fireBudget, aimKeys,
          m_enemies, k_launchers, launchers, currentAim, spawnedEnemies,
             spawnDone, mainPc, destroyed, ground, declared, spawnerPc, spawnI,
             reloadI, playerPc, enemyPc, consumedCount>>

\* The heading rocketThreadFn turns into (dx, dy) once, before its loop: the
\* aim field of the record it was started with.
HeadingCurrent(r) == currentAim
Heading(r) == rockets[r].aim

\* while (gameRunning && r.active): r is the thread's private copy, whose
\* active field is never written, so the test is on gameRunning alone.
RocketLoop(r) ==
    /\ rocketPc[r] = "loop"
    /\ rocketPc' = [rocketPc EXCEPT ![r] = IF gameRunning THEN "move" ELSE "exit"]
    /\ UNCHANGED <<uRocket, enemies, rockets, destroyedEnemies, groundHits,
                   gameRunning, enemyListMutex, rocketListMutex, reloadPc>>

\* r.x += dx; r.y += dy; write the position to the global record.
RocketMove(r) ==
    /\ rocketPc[r] = "move"
    /\ rocketListMutex = "free"
    /\ rockets' = [rockets EXCEPT
                      ![r].x = @ + AimDx(Heading(r)),
                      ![r].y = @ + AimDy(Heading(r))]
    /\ rocketPc' = [rocketPc EXCEPT ![r] = "scan"]
    /\ UNCHANGED <<uRocket, enemies, destroyedEnemies, groundHits,
                   gameRunning, enemyListMutex, rocketListMutex, reloadPc>>

\* Collision check, then the hit and offscreen tests, then the 70 ms sleep.
RocketScan(r) ==
    /\ rocketPc[r] = "scan"
    /\ enemyListMutex = "free"
    /\ LET h == HitIndex(enemies, 1, rockets[r].x, rockets[r].y) IN
         IF h # 0
         THEN /\ enemies' = [enemies EXCEPT ![h].alive = FALSE]
              /\ destroyedEnemies' = destroyedEnemies + 1
              /\ rocketPc' = [rocketPc EXCEPT ![r] = "exit"]
         ELSE /\ UNCHANGED <<enemies, destroyedEnemies>>
              /\ rocketPc' = [rocketPc EXCEPT ![r] =
                    IF OffScreen(rockets[r].x, rockets[r].y) THEN "exit" ELSE "loop"]
    /\ UNCHANGED <<uRocket, rockets, groundHits, gameRunning, enemyListMutex,
                   rocketListMutex, reloadPc>>

\* Mark the rocket inactive, then pthread_cond_signal(&batteryNotFull).
RocketExit(r) ==
    /\ rocketPc[r] = "exit"
    /\ rocketListMutex = "free"
    /\ rockets' = [rockets EXCEPT ![r].active = FALSE]
    /\ rocketPc' = [rocketPc EXCEPT ![r] = "done"]
    /\ reloadPc' = Signalled(reloadPc)
    /\ UNCHANGED <<uRocket, enemies, destroyedEnemies, groundHits,
                   gameRunning, enemyListMutex, rocketListMutex>>

\* ----------------------------------------------------- enemyThreadFn
uEnemy == <<batteryMutex, screenMutex, lockPath, fireBudget, aimKeys,
          m_enemies, k_launchers, rockets, launchers, currentAim,
            destroyedEnemies, spawnedEnemies, gameRunning, spawnDone,
            enemyListMutex, rocketListMutex, mainPc, destroyed, ground,
            declared, spawnerPc, spawnI, reloadPc, reloadI, playerPc, rocketPc,
            consumedCount>>

\* while (gameRunning && e.alive): e is the thread's private copy, whose
\* alive field is never written, so the test is on gameRunning alone.
EnemyLoop(e) ==
    /\ enemyPc[e] = "loop"
    /\ enemyPc' = [enemyPc EXCEPT ![e] = IF gameRunning THEN "move" ELSE "done"]
    /\ UNCHANGED <<uEnemy, enemies, groundHits>>

\* sleep; e.y += 1; write y to the global record; test for the ground row.
EnemyMove(e) ==
    /\ enemyPc[e] = "move"
    /\ enemyListMutex = "free"
    /\ enemies' = [enemies EXCEPT ![e].y = @ + 1]
    /\ enemyPc' = [enemyPc EXCEPT ![e] =
          IF enemies[e].y + 1 >= SCREEN_H - 2 THEN "ground" ELSE "loop"]
    /\ UNCHANGED <<uEnemy, groundHits>>

\* Reached the ground: count a ground hit if the record is still alive.
EnemyGround(e) ==
    /\ enemyPc[e] = "ground"
    /\ enemyListMutex = "free"
    /\ IF GroundTest(enemies[e])
       THEN /\ enemies' = [enemies EXCEPT ![e].alive = FALSE]
            /\ groundHits' = groundHits + 1
       ELSE UNCHANGED <<enemies, groundHits>>
    /\ enemyPc' = [enemyPc EXCEPT ![e] = "done"]
    /\ UNCHANGED uEnemy

\* ---------------------------------------------------- enemySpawnerFn
uSpawner == <<batteryMutex, screenMutex, lockPath, fireBudget, aimKeys,
          m_enemies, k_launchers, rockets, launchers, currentAim,
              destroyedEnemies, groundHits, gameRunning, enemyListMutex,
              rocketListMutex, mainPc, destroyed, ground, declared, reloadPc,
              reloadI, playerPc, rocketPc, consumedCount>>

\* The for loop's test; on exit, spawnDone = true.
SpawnerLoop ==
    /\ spawnerPc = "loop"
    /\ IF SpawnTest(spawnI, gameRunning)
       THEN spawnerPc' = "spawn" /\ UNCHANGED spawnDone
       ELSE spawnerPc' = "done" /\ spawnDone' = TRUE
    /\ UNCHANGED <<uSpawner, enemies, spawnedEnemies, spawnI, enemyPc>>

\* Push the enemy, start its thread, spawnedEnemies++, sleep, ++i.
SpawnerSpawn ==
    /\ spawnerPc = "spawn"
    /\ enemyListMutex = "free"
    /\ \E x \in 2..(SCREEN_W - 4) :
         enemies' = Append(enemies, [x |-> x, y |-> 1, alive |-> TRUE])
    /\ enemyPc' = [enemyPc EXCEPT ![Len(enemies) + 1] = "loop"]
    /\ spawnedEnemies' = spawnedEnemies + 1
    /\ spawnI' = spawnI + 1
    /\ spawnerPc' = "loop"
    /\ UNCHANGED <<uSpawner, spawnDone>>

\* ---------------------------------------------------- reloadThreadFn
uReload == <<batteryMutex, screenMutex, lockPath, fireBudget, aimKeys,
          m_enemies, k_launchers, enemies, rockets, currentAim,
             destroyedEnemies, groundHits, spawnedEnemies, gameRunning,
             spawnDone, enemyListMutex, rocketListMutex, mainPc, destroyed,
             ground, declared, spawnerPc, spawnI, playerPc, enemyPc, rocketPc,
             consumedCount>>

\* while (gameRunning)
ReloadLoop ==
    /\ reloadPc = "loop"
    /\ reloadPc' = IF gameRunning THEN "lock" ELSE "done"
    /\ UNCHANGED <<uReload, launchers, reloadI>>

\* Lock batteryMutex; all full: wait on batteryNotFull; else run the for loop
\* to the first empty launcher (unlock and sleep there) or to its end.
ReloadLock ==
    /\ reloadPc = "lock"
    /\ IF AllFull(launchers)
       THEN reloadPc' = "wait" /\ UNCHANGED reloadI
       ELSE LET j == NextEmpty(launchers, 0, gameRunning) IN
              IF j < k_launchers
              THEN reloadPc' = "sleep" /\ reloadI' = j
              ELSE reloadPc' = "loop" /\ reloadI' = 0
    /\ UNCHANGED <<uReload, launchers>>

\* After the reload delay: lock again, load launcher i if still empty, signal,
\* and continue the for loop from i + 1.
ReloadLoad ==
    /\ reloadPc = "sleep"
    /\ LET l == IF ~launchers[reloadI]
                THEN [launchers EXCEPT ![reloadI] = TRUE] ELSE launchers
           j == NextEmpty(l, reloadI + 1, gameRunning)
       IN /\ launchers' = l
          /\ IF j < k_launchers
             THEN reloadPc' = "sleep" /\ reloadI' = j
             ELSE reloadPc' = "loop" /\ reloadI' = 0
    /\ UNCHANGED uReload

\* pthread_cond_wait may return without a signal (spurious wakeup).
ReloadSpuriousWake ==
    /\ reloadPc = "wait"
    /\ reloadPc' = "loop"
    /\ UNCHANGED <<uReload, launchers, reloadI>>

\* ------------------------------------------------ playerControllerFn
uPlayer == <<batteryMutex, screenMutex, lockPath, fireBudget, aimKeys,
          m_enemies, k_launchers, enemies, destroyedEnemies, groundHits,
             spawnedEnemies, spawnDone, enemyListMutex, rocketListMutex,
             mainPc, destroyed, ground, declared, spawnerPc, spawnI, reloadI,
             enemyPc>>

\* while (gameRunning)
PlayerLoop ==
    /\ playerPc = "loop"
    /\ playerPc' = IF gameRunning THEN "event" ELSE "done"
    /\ UNCHANGED <<uPlayer, rockets, launchers, currentAim, gameRunning,
                   reloadPc, rocketPc, consumedCount>>

\* wgetch returned ERR: idle sleep, continue.
PlayerNone ==
    /\ playerPc = "event"
    /\ playerPc' = "loop"
    /\ UNCHANGED <<uPlayer, rockets, launchers, currentAim, gameRunning,
                   reloadPc, rocketPc, consumedCount>>

\* 'q': gameRunning = false; broadcast; break.
PlayerQuit ==
    /\ playerPc = "event"
    /\ gameRunning' = FALSE
    /\ reloadPc' = Signalled(reloadPc)
    /\ playerPc' = "quit"
    /\ UNCHANGED <<uPlayer, rockets, launchers, currentAim, rocketPc,
                   consumedCount>>

\* An aim key: currentAim = a under batteryMutex.
PlayerAim(a) ==
    /\ playerPc = "event"
    /\ currentAim' = a
    /\ playerPc' = "loop"
    /\ UNCHANGED <<uPlayer, rockets, launchers, gameRunning, reloadPc,
                   rocketPc, consumedCount>>

\* ' ': consume the first launcher that contains a rocket, signal
\* batteryNotFull; without a rocket, the "No rockets available!" branch.
PlayerFire ==
    /\ playerPc = "event"
    /\ LET chosen == ChosenLauncher(launchers) IN
         /\ chosen # -1 => consumedCount < fireBudget
         /\ IF chosen # -1
            THEN /\ launchers' = [launchers EXCEPT ![chosen] = FALSE]
                 /\ consumedCount' = consumedCount + 1
            ELSE UNCHANGED <<launchers, consumedCount>>
         /\ playerPc' = IF Fired(chosen) THEN "launch" ELSE "noammo"
    /\ reloadPc' = Signalled(reloadPc)
    /\ UNCHANGED <<uPlayer, rockets, currentAim, gameRunning, rocketPc>>

\* Any of the aim keys the input source presses.
PlayerAimKey == \E a \in aimKeys : PlayerAim(a)

\* else branch: print "No rockets available!", sleep 300 ms, continue.
PlayerNoAmmo ==
    /\ playerPc = "noammo"
    /\ playerPc' = "loop"
    /\ UNCHANGED <<uPlayer, rockets, launchers, currentAim, gameRunning,
                   reloadPc, rocketPc, consumedCount>>

\* if (fired): build the rocket, push it, start its thread, store its tid.
PlayerLaunch ==
    /\ playerPc = "launch"
    /\ rocketListMutex = "free"
    /\ rockets' = Append(rockets, [x |-> SCREEN_W \div 2, y |-> SCREEN_H - 3,
                                   aim |-> currentAim, active |-> TRUE])
    /\ rocketPc' = [rocketPc EXCEPT ![Len(rockets) + 1] = "loop"]
    /\ playerPc' = "loop"
    /\ UNCHANGED <<uPlayer, launchers, currentAim, gameRunning, reloadPc,
                   consumedCount>>

\* ------------------------------------------------------------- main
uMain == <<batteryMutex, screenMutex, lockPath, fireBudget, aimKeys,
          m_enemies, k_launchers, enemies, rockets, launchers, currentAim,
           destroyedEnemies, groundHits, spawnedEnemies, spawnDone, spawnerPc,
           spawnI, reloadI, playerPc, enemyPc, rocketPc, consumedCount>>

\* while (gameRunning)
MainLoop ==
    /\ mainPc = "loop"
    /\ mainPc' = IF gameRunning THEN "loadD" ELSE "stop"
    /\ UNCHANGED <<uMain, gameRunning, enemyListMutex, rocketListMutex,
                   destroyed, ground, declared, reloadPc>>

\* int destroyed = destroyedEnemies.load();
MainLoadDestroyed ==
    /\ mainPc = "loadD"
    /\ destroyed' = destroyedEnemies
    /\ mainPc' = "loadG"
    /\ UNCHANGED <<uMain, gameRunning, enemyListMutex, rocketListMutex,
                   ground, declared, reloadPc>>

\* int ground = groundHits.load();
MainLoadGround ==
    /\ mainPc = "loadG"
    /\ ground' = groundHits
    /\ mainPc' = "rules"
    /\ UNCHANGED <<uMain, gameRunning, enemyListMutex, rocketListMutex,
                   destroyed, declared, reloadPc>>

\* The victory and defeat tests on the two locals; neither: read spawnDone,
\* and sleep 120 ms when it is false.
MainRules ==
    /\ mainPc = "rules"
    /\ IF WinTest(destroyed)
       THEN /\ declared' = declared \cup {"Win"}
            /\ gameRunning' = FALSE
            /\ mainPc' = "stop"
            /\ UNCHANGED <<destroyed, ground>>
       ELSE IF LoseTest(ground)
       THEN /\ declared' = declared \cup {"Lose"}
            /\ gameRunning' = FALSE
            /\ mainPc' = "stop"
            /\ UNCHANGED <<destroyed, ground>>
       ELSE IF spawnDone
       THEN /\ mainPc' = "scan"
            /\ UNCHANGED <<declared, gameRunning, destroyed, ground>>
       ELSE /\ mainPc' = "loop"
            /\ destroyed' = 0 /\ ground' = 0
            /\ UNCHANGED <<declared, gameRunning>>
    /\ UNCHANGED <<uMain, enemyListMutex, rocketListMutex, reloadPc>>

\* spawnDone was true: scan for a live enemy; none: evaluate the counts read
\* at the top of the iteration, print the outcome, gameRunning = false.
MainScan ==
    /\ mainPc = "scan"
    /\ enemyListMutex = "free"
    /\ IF \E i \in 1..Len(enemies) : enemies[i].alive
       THEN /\ mainPc' = "loop"
            /\ UNCHANGED <<declared, gameRunning>>
       ELSE /\ declared' = declared \cup FinalOutcome(destroyed)
            /\ gameRunning' = FALSE
            /\ mainPc' = "stop"
    /\ destroyed' = 0 /\ ground' = 0
    /\ UNCHANGED <<uMain, enemyListMutex, rocketListMutex, reloadPc>>

\* After the loop: gameRunning = false; pthread_cond_broadcast.
MainStop ==
    /\ mainPc = "stop"
    /\ gameRunning' = FALSE
    /\ reloadPc' = Signalled(reloadPc)
    /\ destroyed' = 0 /\ ground' = 0
    /\ mainPc' = "join"
    /\ UNCHANGED <<uMain, enemyListMutex, rocketListMutex, declared>>

\* pthread_join of the spawner, the reload and the player thread, then
\* waitForAllThreadsAndCleanup locks enemyListMutex.
MainJoin ==
    /\ mainPc = "join"
    /\ spawnerPc = "done"
    /\ reloadPc = "done"
    /\ playerPc \in {"done", "quit"}
    /\ enemyListMutex = "free"
    /\ enemyListMutex' = "main"
    /\ mainPc' = "joinE"
    /\ UNCHANGED <<uMain, gameRunning, rocketListMutex, destroyed, ground,
                   declared, reloadPc>>

\* pthread_join of every enemy thread with enemyListMutex held; then unlock
\* and lock rocketListMutex.
MainJoinEnemies ==
    /\ mainPc = "joinE"
    /\ \A e \in 1..Len(enemies) : enemyPc[e] = "done"
    /\ rocketListMutex = "free"
    /\ enemyListMutex' = "free"
    /\ rocketListMutex' = "main"
    /\ mainPc' = "joinR"
    /\ UNCHANGED <<uMain, gameRunning, destroyed, ground, declared, reloadPc>>

\* pthread_join of every rocket thread with rocketListMutex held; then unlock.
MainJoinRockets ==
    /\ mainPc = "joinR"
    /\ \A r \in 1..Len(rockets) : rocketPc[r] = "done"
    /\ rocketListMutex' = "free"
    /\ mainPc' = "done"
    /\ UNCHANGED <<uMain, gameRunning, enemyListMutex, destroyed, ground,
                   declared, reloadPc>>

\* ------------------------------------------------------------- Next
Next ==
    \/ \E r \in RocketIds : RocketLoop(r)
    \/ \E r \in RocketIds : RocketMove(r)
    \/ \E r \in RocketIds : RocketScan(r)
    \/ \E r \in RocketIds : RocketExit(r)
    \/ \E e \in EnemyIds : EnemyLoop(e)
    \/ \E e \in EnemyIds : EnemyMove(e)
    \/ \E e \in EnemyIds : EnemyGround(e)
    \/ SpawnerLoop
    \/ SpawnerSpawn
    \/ ReloadLoop
    \/ ReloadLock
    \/ ReloadLoad
    \/ ReloadSpuriousWake
    \/ PlayerLoop
    \/ PlayerNone
    \/ PlayerQuit
    \/ PlayerAimKey
    \/ PlayerFire
    \/ PlayerNoAmmo
    \/ PlayerLaunch
    \/ MainLoop
    \/ MainLoadDestroyed
    \/ MainLoadGround
    \/ MainRules
    \/ MainScan
    \/ MainStop
    \/ MainJoin
    \/ MainJoinEnemies
    \/ MainJoinRockets

Spec == Init /\ [][Next]_vars
RaceSpec == RaceInit /\ [][Next]_vars
BatterySpec == BatteryInit /\ [][Next]_vars

\* Fair scheduling: every thread that can take a step eventually takes one.
\* No fairness is assumed of a spurious wakeup, nor of which input event the
\* player thread reads.
RocketStep(r) == RocketLoop(r) \/ RocketMove(r) \/ RocketScan(r) \/ RocketExit(r)
EnemyStep(e) == EnemyLoop(e) \/ EnemyMove(e) \/ EnemyGround(e)
SpawnerStep == SpawnerLoop \/ SpawnerSpawn
ReloadStep == ReloadLoop \/ ReloadLock \/ ReloadLoad
PlayerStep ==
    \/ PlayerLoop \/ PlayerNone \/ PlayerQuit \/ PlayerAimKey
    \/ PlayerFire \/ PlayerNoAmmo \/ PlayerLaunch
MainStep ==
    \/ MainLoop \/ MainLoadDestroyed \/ MainLoadGround \/ MainRules \/ MainScan
    \/ MainStop \/ MainJoin \/ MainJoinEnemies \/ MainJoinRockets

Fairness ==
    /\ \A r \in RocketIds : WF_vars(RocketStep(r))
    /\ \A e \in EnemyIds : WF_vars(EnemyStep(e))
    /\ WF_vars(SpawnerStep)
    /\ WF_vars(ReloadStep)
    /\ WF_vars(PlayerStep)
    /\ WF_vars(MainStep)

FairSpec == SmallInit /\ [][Next]_vars /\ Fairness

\* -------------------------------------------------- lock discipline
\* The four pthread mutexes.
Locks == {"enemyListMutex", "rocketListMutex", "batteryMutex", "screenMutex"}

Owner(l) ==
    CASE l = "enemyListMutex" -> enemyListMutex
      [] l = "rocketListMutex" -> rocketListMutex
      [] l = "batteryMutex" -> batteryMutex
      [] l = "screenMutex" -> screenMutex

SetOwner(l, o) ==
    /\ enemyListMutex' = IF l = "enemyListMutex" THEN o ELSE enemyListMutex
    /\ rocketListMutex' = IF l = "rocketListMutex" THEN o ELSE rocketListMutex
    /\ batteryMutex' = IF l = "batteryMutex" THEN o ELSE batteryMutex
    /\ screenMutex' = IF l = "screenMutex" THEN o ELSE screenMutex

\* One call, and a critical section that makes no lock call inside.
Lk(l) == <<"lock", l>>
Ul(l) == <<"unlock", l>>
Section(l) == <<Lk(l), Ul(l)>>

\* drawScreen: screenMutex from its first to its last line, and inside it, one
\* after the other, batteryMutex, enemyListMutex and rocketListMutex.
DrawScreenPath ==
    <<Lk("screenMutex"),
      Lk("batteryMutex"), Ul("batteryMutex"),
      Lk("enemyListMutex"), Ul("enemyListMutex"),
      Lk("rocketListMutex"), Ul("rocketListMutex"),
      Ul("screenMutex")>>

\* rocketThreadFn, one tick: the position write, then the collision check.
RocketTickNested ==
    <<Lk("rocketListMutex"), Lk("enemyListMutex"),
      Ul("enemyListMutex"), Ul("rocketListMutex")>>
RocketTickPath == Section("rocketListMutex") \o Section("enemyListMutex")

\* rocketThreadFn after its loop: mark the record inactive.
RocketExitPath == Section("rocketListMutex")

\* enemyThreadFn, one step: the position write; on the ground row, the ground
\* section after it.
EnemyStepPath == Section("enemyListMutex")
EnemyGroundPath == Section("enemyListMutex") \o Section("enemyListMutex")

\* enemySpawnerFn, one enemy: push the record, then store the thread id.
SpawnerPath == Section("enemyListMutex") \o Section("enemyListMutex")

\* reloadThreadFn, one round: lock; all full: pthread_cond_wait releases the
\* mutex and takes it again, unlock; otherwise unlock for the delay, lock
\* again, unlock after the for loop.  Both branches make the same calls.
ReloadPath == Section("batteryMutex") \o Section("batteryMutex")

\* reloadThreadFn, a round that finds an empty launcher only after
\* gameRunning was cleared: lock, for loop not entered, unlock.
ReloadSkipPath == Section("batteryMutex")

\* playerControllerFn, one round: wgetch under screenMutex; ERR or 'q' end
\* the round; an aim key sets currentAim under batteryMutex; the fire key
\* runs the battery section and then either the two rocket-list sections or
\* the no-ammo message under screenMutex; every key but 'q' ends in drawScreen.
PlayerIdlePath == Section("screenMutex")
PlayerOtherKeyPath == Section("screenMutex") \o DrawScreenPath
PlayerAimPath == Section("screenMutex") \o Section("batteryMutex") \o DrawScreenPath
PlayerFirePath ==
    Section("screenMutex") \o Section("batteryMutex")
        \o Section("rocketListMutex") \o Section("rocketListMutex") \o DrawScreenPath
PlayerNoAmmoPath ==
    Section("screenMutex") \o Section("batteryMutex") \o Section("screenMutex")
        \o DrawScreenPath

\* main, one iteration: drawScreen; then nothing, or an outcome message under
\* screenMutex, or the scan for a live enemy with or without a message after it.
MainTickPath == DrawScreenPath
MainDeclarePath == DrawScreenPath \o Section("screenMutex")
MainScanPath == DrawScreenPath \o Section("enemyListMutex")
MainScanDeclarePath ==
    DrawScreenPath \o Section("enemyListMutex") \o Section("screenMutex")

\* main after its loop: waitForAllThreadsAndCleanup, then the final message.
MainCleanupPath ==
    Section("enemyListMutex") \o Section("rocketListMutex") \o Section("screenMutex")

Paths(t) ==
    CASE t = "main" -> {MainTickPath, MainDeclarePath, MainScanPath,
                        MainScanDeclarePath, MainCleanupPath}
      [] t = "spawner" -> {SpawnerPath}
      [] t = "reload" -> {ReloadPath, ReloadSkipPath}
      [] t = "player" -> {PlayerIdlePath, PlayerOtherKeyPath, PlayerAimPath,
                          PlayerFirePath, PlayerNoAmmoPath}
      [] t = "enemy" -> {EnemyStepPath, EnemyGroundPath}
      [] t = "rocket" -> {RocketTickPath, RocketExitPath}

\* Everything but the four mutexes and the paths.
uLock == <<m_enemies, k_launchers, enemies, rockets, launchers, currentAim,
           destroyedEnemies, groundHits, spawnedEnemies, gameRunning, spawnDone,
           mainPc, destroyed, ground, declared, spawnerPc, spawnI, reloadPc,
           reloadI, playerPc, enemyPc, rocketPc, consumedCount, fireBudget,
           aimKeys>>

\* A thread between code paths starts one of its paths.
PathBegin(t) ==
    /\ lockPath[t] = <<>>
    /\ \E p \in Paths(t) : lockPath' = [lockPath EXCEPT ![t] = p]
    /\ UNCHANGED <<uLock, enemyListMutex, rocketListMutex, batteryMutex, screenMutex>>

\* pthread_mutex_lock: blocks until the mutex is free, then owns it.
MutexLock(t) ==
    /\ lockPath[t] # <<>>
    /\ Head(lockPath[t])[1] = "lock"
    /\ Owner(Head(lockPath[t])[2]) = "free"
    /\ SetOwner(Head(lockPath[t])[2], t)
    /\ lockPath' = [lockPath EXCEPT ![t] = Tail(@)]
    /\ UNCHANGED uLock

\* pthread_mutex_unlock by the owner.
MutexUnlock(t) ==
    /\ lockPath[t] # <<>>
    /\ Head(lockPath[t])[1] = "unlock"
    /\ Owner(Head(lockPath[t])[2]) = t
    /\ SetOwner(Head(lockPath[t])[2], "free")
    /\ lockPath' = [lockPath EXCEPT ![t] = Tail(@)]
    /\ UNCHANGED uLock

LockNext ==
    \/ \E t \in Threads : PathBegin(t)
    \/ \E t \in Threads : MutexLock(t)
    \/ \E t \in Threads : MutexUnlock(t)

\* The threads running, nothing spawned or fired yet.
LockInit == Start(1, 1, 0, {})

LockSpec == LockInit /\ [][LockNext]_vars

\* ------------------------------------------------------------ claims
Created(e) == e <= Len(enemies)
Launched(r) == r <= Len(rockets)
DeadEnemies == {e \in 1..Len(enemies) : ~enemies[e].alive}
Ceil2(m) == (m + 1) \div 2
AfterLoop == {"stop", "join", "joinE", "joinR", "done"}

\* C1: in every state (every critical section on the enemy list is one
\* action, so every state is outside them) destroyedEnemies + groundHits is at
\* most m and equals the number of enemy records whose alive flag is false;
\* neither counter ever decreases.
C1_CountersMatchDead ==
    /\ [](/\ destroyedEnemies + groundHits <= m_enemies
          /\ destroyedEnemies + groundHits = Cardinality(DeadEnemies))
    /\ [][/\ destroyedEnemies' >= destroyedEnemies
          /\ groundHits' >= groundHits]_vars

\* C1 witness: with two enemies, one was shot and one reached the ground.
C1_Witness ==
    /\ destroyedEnemies = 1 /\ groundHits = 1
    /\ Cardinality(DeadEnemies) = 2

\* C2: in every step a dead enemy stays dead, at most one enemy goes from
\* alive to dead, and destroyedEnemies + groundHits grows by exactly the number
\* of enemies that died in the step, each counter growing by 0 or 1: a second
\* rocket on the cell of a dead enemy, or the ground test of a shot enemy,
\* changes no counter.
C2_DiesOnceCountsOnce ==
    [][LET dying == {e \in 1..Len(enemies) : enemies[e].alive /\ ~enemies'[e].alive}
           dD == destroyedEnemies' - destroyedEnemies
           dG == groundHits' - groundHits
       IN /\ \A e \in 1..Len(enemies) : ~enemies[e].alive => ~enemies'[e].alive
          /\ Cardinality(dying) <= 1
          /\ dD \in {0, 1} /\ dG \in {0, 1}
          /\ dD + dG = Cardinality(dying)]_vars

\* C2 witness: two rockets have both scanned the cell of one enemy, the first
\* shot it, the second found it dead and scored nothing.
C2_Witness ==
    /\ Len(rockets) = 2 /\ Len(enemies) = 1
    /\ ~enemies[1].alive
    /\ rockets[1].x = enemies[1].x /\ rockets[1].y = enemies[1].y
    /\ rockets[2].x = enemies[1].x /\ rockets[2].y = enemies[1].y
    /\ rocketPc[1] \in {"exit", "done"}
    /\ rocketPc[2] = "loop"
    /\ destroyedEnemies = 1 /\ groundHits = 0

\* C3 as stated: once main has left its loop (by its own rules or because the
\* quit key cleared gameRunning), exactly one of Win and Lose was declared.
C3_ExactlyOneOutcome ==
    mainPc \in AfterLoop => Cardinality(declared) = 1

\* C3 amended: main never declares both; once it has left its loop it has
\* declared exactly one outcome unless the player thread took the quit branch,
\* in which case it may have declared none.
C3_OneOutcomeUnlessQuit ==
    /\ Cardinality(declared) <= 1
    /\ mainPc \in AfterLoop /\ playerPc # "quit" => Cardinality(declared) = 1

\* C3 witness: the match was ended by the quit key and main left its loop
\* with no outcome declared.
C3_Witness ==
    /\ mainPc \in AfterLoop
    /\ playerPc = "quit"
    /\ declared = {}

\* C4: no state in which main waits in pthread_join for a thread that
\* needs, for its next step, the list mutex main holds across the join.
C4_NoJoinUnderLock ==
    /\ ~(/\ mainPc = "joinE" /\ enemyListMutex = "main"
         /\ \E e \in 1..Len(enemies) : enemyPc[e] \in {"move", "ground"})
    /\ ~(/\ mainPc = "joinR" /\ rocketListMutex = "main"
         /\ \E r \in 1..Len(rockets) : rocketPc[r] \in {"move", "exit"})

\* C5: once main has cleared gameRunning and issued its broadcast (it is
\* past MainStop), the reload thread eventually exits.
C5_ReloadExitsAfterBroadcast ==
    (mainPc = "join") ~> (reloadPc = "done")

\* C6: in every step taken with gameRunning false, no enemy record's
\* position or alive flag, no rocket record's position and neither counter
\* changes.
C6_NoMutationAfterShutdown ==
    [][~gameRunning =>
         /\ \A e \in 1..Len(enemies) : enemies'[e] = enemies[e]
         /\ \A r \in 1..Len(rockets) :
              rockets'[r].x = rockets[r].x /\ rockets'[r].y = rockets[r].y
         /\ destroyedEnemies' = destroyedEnemies
         /\ groundHits' = groundHits]_vars

\* C7: in the step in which main declares Win, destroyedEnemies is at least
\* ceil(m/2); in the step in which it declares Lose, destroyedEnemies is below
\* ceil(m/2).
C7_OutcomeAgreesWithCounters ==
    [][/\ ("Win" \notin declared /\ "Win" \in declared')
            => destroyedEnemies' >= Ceil2(m_enemies)
       /\ ("Lose" \notin declared /\ "Lose" \in declared')
            => destroyedEnemies' < Ceil2(m_enemies)]_vars

\* Position updates a rocket has made: each update moves it by one cell in the
\* Chebyshev metric away from the launch point.
Abs(n) == IF n < 0 THEN -n ELSE n
Max(a, b) == IF a >= b THEN a ELSE b
Updates(r) ==
    Max(Abs(rockets[r].x - SCREEN_W \div 2), Abs(rockets[r].y - (SCREEN_H - 3)))

\* C8: every launched rocket eventually has its active flag false, and never
\* makes more than max(SCREEN_W, SCREEN_H) position updates.
C8_RocketTerminates ==
    /\ [](\A r \in 1..Len(rockets) : Updates(r) <= Max(SCREEN_W, SCREEN_H))
    /\ \A r \in RocketIds : Launched(r) ~> (Launched(r) /\ ~rockets[r].active)

\* The launcher indices, the loaded ones, and the lowest loaded one.
Slots == 0..(k_launchers - 1)
Loaded(l) == {i \in Slots : l[i]}
Lowest(S) == CHOOSE i \in S : \A j \in S : i <= j

\* C9: a fire event with a loaded launcher empties exactly the lowest-indexed
\* loaded one, leaves the others unchanged and succeeds; so each such fire
\* lowers the loaded count by one, and a fire event with no loaded launcher
\* takes the no-ammo branch.
C9_FireTakesLowestLoaded ==
    [][PlayerFire =>
         IF Loaded(launchers) # {}
         THEN /\ launchers' = [launchers EXCEPT ![Lowest(Loaded(launchers))] = FALSE]
              /\ Cardinality(Loaded(launchers')) = Cardinality(Loaded(launchers)) - 1
              /\ playerPc' = "launch"
         ELSE playerPc' = "noammo"]_vars

\* C9 witness: k = 2, both launchers were fired with no reload completing in
\* between (the two consumptions left both empty), and the next fire event
\* took the no-ammo branch.
C9_Witness ==
    /\ k_launchers = 2
    /\ consumedCount = 2
    /\ Loaded(launchers) = {}
    /\ playerPc = "noammo"

\* C10: a fire event with no loaded launcher changes no launcher, creates no
\* rocket record and starts no rocket thread, and is followed by no launch;
\* the number of rocket records equals the number of Loaded -> Empty
\* transitions, except between a consumption and its launch, where it is one
\* less.
C10_NoAmmoCreatesNothing ==
    /\ [][PlayerFire /\ Loaded(launchers) = {} =>
            /\ UNCHANGED <<launchers, rockets, rocketPc, consumedCount>>
            /\ playerPc' = "noammo"]_vars
    /\ [][playerPc = "noammo" =>
            /\ Len(rockets') = Len(rockets)
            /\ \A r \in RocketIds : rocketPc[r] = "none" => rocketPc'[r] = "none"]_vars
    /\ [](Len(rockets) = consumedCount - (IF playerPc = "launch" THEN 1 ELSE 0))
    /\ [](Cardinality({r \in RocketIds : rocketPc[r] # "none"}) = Len(rockets))

\* C10 witness: a fire event found no loaded launcher, after one rocket was
\* launched.
C10_Witness ==
    /\ playerPc = "noammo"
    /\ Len(rockets) = 1 /\ consumedCount = 1

\* C11: the reload thread never waits on batteryNotFull while a launcher is
\* empty (a fire cannot fall between its all-full test and its wait, and a
\* fire while it waits wakes it); a launcher goes from empty to loaded only in
\* the reload thread's step after the delay for that launcher, which found it
\* still empty; and under fair scheduling a launcher emptied by a fire is
\* eventually loaded again unless the match ends first.
C11_FiredSlotReloaded ==
    /\ [](reloadPc = "wait" => AllFull(launchers))
    /\ [][\A i \in Slots : ~launchers[i] /\ launchers'[i] =>
            reloadPc = "sleep" /\ reloadI = i]_vars
    /\ \A i \in 0..(MaxK - 1) :
          (i \in Slots /\ ~launchers[i]) ~> ((i \in Slots /\ launchers[i]) \/ ~gameRunning)

\* C11 witness: the one launcher was emptied by a fire and has been loaded
\* again while the match is still running.
C11_Witness ==
    /\ consumedCount = 1
    /\ launchers[0]
    /\ gameRunning
    /\ reloadPc \in {"loop", "lock", "wait"}

\* C12: the win threshold (destroyed >= ceil(m/2)) and the lose threshold
\* (ground > floor(m/2)) never hold together, neither on the two counters nor
\* on the copies main tests, so the order of main's two tests never decides
\* the outcome; this includes even m, where destroyed = ground = m/2 is a win
\* only.
C12_ThresholdsExclusive ==
    /\ ~(destroyedEnemies >= Ceil2(m_enemies) /\ groundHits > m_enemies \div 2)
    /\ mainPc = "rules" => ~(destroyed >= Ceil2(m_enemies) /\ ground > m_enemies \div 2)

\* C12 witness: m = 2 and main tests its rules with one enemy shot and one on
\* the ground.
C12_Witness ==
    /\ m_enemies = 2
    /\ mainPc = "rules"
    /\ destroyed = 1 /\ ground = 1

\* C13: the launchers are always the k slots 0..k-1, so the loaded count is
\* within 0..k; a slot goes from loaded to empty only in a fire step and from
\* empty to loaded only in the reload thread's load step; a fire that succeeds
\* empties exactly one slot that was loaded, and a load step empties none.
C13_SlotTransitions ==
    /\ [](/\ DOMAIN launchers = Slots
          /\ Cardinality(Loaded(launchers)) \in 0..k_launchers)
    /\ [][\A i \in Slots :
            /\ (launchers[i] /\ ~launchers'[i]) => PlayerFire
            /\ (~launchers[i] /\ launchers'[i]) => ReloadLoad]_vars
    /\ [][PlayerFire /\ playerPc' = "launch" =>
            Cardinality({i \in Slots : launchers[i] /\ ~launchers'[i]}) = 1]_vars
    /\ [][ReloadLoad => \A i \in Slots : launchers[i] => launchers'[i]]_vars

\* C13 witness: k = 2, both slots were emptied by fires and the reload thread
\* has loaded slot 0 again while slot 1 is still empty.
C13_Witness ==
    /\ k_launchers = 2
    /\ consumedCount = 2
    /\ launchers[0] /\ ~launchers[1]
    /\ reloadPc = "sleep" /\ reloadI = 1

\* The enemy records on the cell of rocket r, and the live ones among them.
OnCell(r) ==
    {e \in 1..Len(enemies) : enemies[e].x = rockets[r].x /\ enemies[e].y = rockets[r].y}
LiveOnCell(r) == {e \in OnCell(r) : enemies[e].alive}

\* C14 as stated: a rocket whose new position equals the position of any
\* enemy record, alive or dead, ends its flight at the collision check.
C14_StopsOnAnyMatch ==
    [][\A r \in 1..Len(rockets) :
         rocketPc[r] = "scan" /\ rocketPc'[r] # "scan" /\ OnCell(r) # {}
            => rocketPc'[r] = "exit"]_vars

\* C14 amended: at its collision check a rocket ends its flight as a hit
\* exactly when a live enemy is on its new cell, and then it kills one such
\* enemy and scores it; with no live enemy there (none, or only dead ones) it
\* kills and scores nothing and flies on unless the cell is off the field.
C14_StopsOnLiveMatchOnly ==
    [][\A r \in 1..Len(rockets) :
         rocketPc[r] = "scan" /\ rocketPc'[r] # "scan" =>
            IF LiveOnCell(r) # {}
            THEN /\ rocketPc'[r] = "exit"
                 /\ destroyedEnemies' = destroyedEnemies + 1
                 /\ \E e \in LiveOnCell(r) : ~enemies'[e].alive
            ELSE /\ UNCHANGED <<enemies, destroyedEnemies>>
                 /\ rocketPc'[r] =
                       IF OffScreen(rockets[r].x, rockets[r].y) THEN "exit" ELSE "loop"]_vars

\* C14 witness: a second rocket is in flight, past its collision check, on
\* the cell of an enemy that the first rocket shot there.
C14_Witness ==
    \E r \in 1..Len(rockets) :
       /\ rocketPc[r] = "loop"
       /\ rockets[r].active
       /\ OnCell(r) # {} /\ LiveOnCell(r) = {}
       /\ ~OffScreen(rockets[r].x, rockets[r].y)
       /\ \E q \in 1..Len(rockets) :
             q # r /\ rocketPc[q] = "done" /\ rockets[q].x = rockets[r].x
                   /\ rockets[q].y = rockets[r].y

\* C15: once an enemy record's alive flag is false, its thread makes no
\* further position update on the record: no step changes the position of a
\* dead enemy.
C15_DestroyedIsTerminal ==
    [][\A e \in 1..Len(enemies) :
         ~enemies[e].alive =>
            enemies'[e].x = enemies[e].x /\ enemies'[e].y = enemies[e].y]_vars

\* C16: in every step in which main declares an outcome by its third rule
\* (spawnDone was true and the scan found no live enemy), all m enemies have
\* been spawned.
C16_RuleCOnlyAfterAllSpawned ==
    [][mainPc = "scan" /\ declared' # declared => spawnedEnemies = m_enemies]_vars

\* C19: a rocket record is created only by the launch that follows a fire,
\* with the aim that was current at the fire (the aim does not change between
\* the fire and its launch); its aim field never changes; every position
\* update of a rocket adds the direction vector of that aim; and a change of
\* the current aim changes no existing rocket.
C19_HeadingFixedAtFire ==
    /\ [][playerPc = "launch" => currentAim' = currentAim]_vars
    /\ [][Len(rockets') # Len(rockets) =>
            /\ playerPc = "launch"
            /\ Len(rockets') = Len(rockets) + 1
            /\ rockets'[Len(rockets')].aim = currentAim]_vars
    /\ [][\A r \in 1..Len(rockets) :
            /\ rockets'[r].aim = rockets[r].aim
            /\ (rockets'[r].x # rockets[r].x \/ rockets'[r].y # rockets[r].y) =>
                  /\ rockets'[r].x = rockets[r].x + AimDx(rockets[r].aim)
                  /\ rockets'[r].y = rockets[r].y + AimDy(rockets[r].aim)]_vars
    /\ [][currentAim' # currentAim => rockets' = rockets]_vars

\* C19 witness: the first rocket was fired with the aim up, the aim was then
\* turned left and a second rocket fired; the first has gone one cell up and
\* the second one cell left.
C19_Witness ==
    /\ Len(rockets) = 2
    /\ currentAim = "AIM_LEFT"
    /\ rockets[1].aim = "AIM_UP" /\ rockets[2].aim = "AIM_LEFT"
    /\ rockets[1].x = SCREEN_W \div 2 /\ rockets[1].y = SCREEN_H - 4
    /\ rockets[2].x = SCREEN_W \div 2 - 1 /\ rockets[2].y = SCREEN_H - 3

\* C20: when a rocket thread and an enemy thread are both between their
\* steps (the rocket past its collision check and before its next move, the
\* enemy before its next move), an active rocket and a live enemy are never on
\* the same cell.
C20_NoLiveEnemyOnRocketCell ==
    \A r \in 1..Len(rockets) : \A e \in 1..Len(enemies) :
       /\ rockets[r].active /\ rocketPc[r] \in {"loop", "move"}
       /\ enemies[e].alive /\ enemyPc[e] \in {"loop", "move"}
       => ~(rockets[r].x = enemies[e].x /\ rockets[r].y = enemies[e].y)

\* The mutexes a thread owns.
Held(t) == {l \in Locks : Owner(l) = t}

\* C17: no thread owns two of the four mutexes at the same time.
C17_NeverTwoLocks ==
    \A t \in Threads : Cardinality(Held(t)) <= 1

\* C18: no thread owns enemyListMutex and rocketListMutex at the same time;
\* the rocket thread and the spawner thread never own two mutexes at all, and
\* the spawner owns none but enemyListMutex.
C18_ListLocksNeverTogether ==
    /\ \A t \in Threads : ~({"enemyListMutex", "rocketListMutex"} \subseteq Held(t))
    /\ Cardinality(Held("rocket")) <= 1
    /\ Held("spawner") \subseteq {"enemyListMutex"}

\* C18 witness: the rocket thread is in its collision check, owning
\* enemyListMutex after it released rocketListMutex, which the player thread
\* owns for a launch while the spawner waits for enemyListMutex.
C18_Witness ==
    /\ enemyListMutex = "rocket"
    /\ lockPath["rocket"] = <<Ul("enemyListMutex")>>
    /\ rocketListMutex = "player"
    /\ lockPath["spawner"] # <<>>

====
